---- MODULE Spec2Model ----
(***************************************************************************)
(* A model of scripts/altstore_converter.py: the schema converter          *)
(* (convert_app_to_altstore_format), the archive fetcher                   *)
(* (download_and_analyze_ipa), the archive inspector (analyze_ipa_file     *)
(* with its two external tools) and the catalog loop (convert_repository). *)
(*                                                                         *)
(* Text whose characters the code inspects (app names, icon URLs, dates)   *)
(* is a sequence of one-character strings; text the code only copies or    *)
(* tests for emptiness is a TLA+ string.  A JSON object is a function from *)
(* field names to values, so "k in app" is k \in DOMAIN app.               *)
(***************************************************************************)
EXTENDS Integers, Sequences, FiniteSets, TLC

(***************************************************************************)
(* Bounds of the model.                                                    *)
(***************************************************************************)
\* longest catalog (data['apps']) a run of convert_repository is given
MaxApps == 2
\* longest key list a signing inspector or profile decoder reports
MaxEnts == 2

(***************************************************************************)
(* Python str operations, on sequences of characters.                      *)
(***************************************************************************)
UpperLetters == <<"A","B","C","D","E","F","G","H","I","J","K","L","M",
                  "N","O","P","Q","R","S","T","U","V","W","X","Y","Z">>
LowerLetters == <<"a","b","c","d","e","f","g","h","i","j","k","l","m",
                  "n","o","p","q","r","s","t","u","v","w","x","y","z">>
Digits == {"0","1","2","3","4","5","6","7","8","9"}

Range(s) == {s[k] : k \in DOMAIN s}

\* str.lower() on one character
LowerChar(c) ==
    IF \E k \in 1..26 : UpperLetters[k] = c
    THEN LowerLetters[CHOOSE k \in 1..26 : UpperLetters[k] = c]
    ELSE c

\* str.lower()
Lower(s) == [k \in 1..Len(s) |-> LowerChar(s[k])]

\* the positions at which t occurs in s
Occurrences(t, s) ==
    {k \in 1..(Len(s) - Len(t) + 1) : SubSeq(s, k, k + Len(t) - 1) = t}

\* Python's "t in s" on strings
StrIn(t, s) == Occurrences(t, s) # {}

\* s.split(sep)[0]: the text before the first occurrence of sep, or all of s
SplitFirst(s, sep) ==
    IF StrIn(sep, s)
    THEN LET k == CHOOSE j \in Occurrences(sep, s) :
                      \A m \in Occurrences(sep, s) : j <= m
         IN  SubSeq(s, 1, k - 1)
    ELSE s

\* the regular-expression class \w (letters, digits, underscore)
IsWordChar(c) ==
    c \in Range(UpperLetters) \cup Range(LowerLetters) \cup Digits \cup {"_"}

\* a sanitizer that replaces spaces only
ReSubSpacesOnly(s) ==
    [k \in 1..Len(s) |-> IF s[k] = " " THEN "_" ELSE s[k]]

\* re.sub(r'[^\w\-_.]', '_', s)
ReSubUnsafe(s) ==
    [k \in 1..Len(s) |->
        IF IsWordChar(s[k]) \/ s[k] \in {"-", "_", "."} THEN s[k] ELSE "_"]

(***************************************************************************)
(* Text literals of the code.                                              *)
(***************************************************************************)
ServeIcons    == <<"s","e","r","v","e","/","i","c","o","n","s">>
ServeIconsSep == <<"/">> \o ServeIcons \o <<"/">>
ServeShots    == <<"/","s","e","r","v","e","/","s","c","r","e","e","n",
                   "s","h","o","t","s","/">>
ShotSuffix    == <<"-","0",".","p","n","g">>
MidnightSuffix == <<"T","0","0",":","0","0",":","0","0","-","0","8",":","0","0">>
TokIos15 == <<"i","o","s","1","5">>
TokW15   == <<"w","1","5">>
TokIos16 == <<"i","o","s","1","6">>
TokIos14 == <<"i","o","s","1","4">>

\* the values strftime("%Y-%m-%dT%H:%M:%S-08:00") may give for datetime.now()
NowStamps == { <<"2","6","T","0","9","-","0","8">>,
               <<"2","6","T","1","0","-","0","8">> }

(***************************************************************************)
(* JSON values.                                                            *)
(***************************************************************************)
\* a JSON value that is not an object (a string, a number, null, a list)
NonObject == ("$nonobject" :> TRUE)
IsObject(v) == "$nonobject" \notin DOMAIN v

\* dict.get(k, default)
Get(obj, k, default) == IF k \in DOMAIN obj THEN obj[k] ELSE default

\* truth of dict.get(k) for a field holding a character sequence or a list
TruthySeq(obj, k) == k \in DOMAIN obj /\ obj[k] # <<>>
\* truth of dict.get(k) for a field holding a short string
TruthyStr(obj, k) == k \in DOMAIN obj /\ obj[k] # ""

(***************************************************************************)
(* format_date                                                             *)
(***************************************************************************)
format_date(date_str, now) ==
    IF date_str = <<>> THEN now
    ELSE IF StrIn(<<"T">>, date_str) THEN date_str
    ELSE date_str \o MidnightSuffix

(***************************************************************************)
(* generate_screenshot_urls                                                *)
(***************************************************************************)
generate_screenshot_urls(app_name, base_url) ==
    IF base_url # <<>>
    THEN << base_url \o ServeShots \o app_name \o <<"/">>
            \o ReSubUnsafe(app_name) \o ShotSuffix >>
    ELSE << >>

(***************************************************************************)
(* convert_app_to_altstore_format, up to the permission enrichment.        *)
(***************************************************************************)
\* the value None
None == ("$none" :> TRUE)
IsNone(v) == "$none" \in DOMAIN v

\* a resolution that does not look at an existing 'screenshots' field
resolve_screenshots_urls_only(app) ==
    IF TruthySeq(app, "screenshotURLs") THEN app["screenshotURLs"]
    ELSE LET icon == Get(app, "iconURL", <<>>)
             base_url == IF StrIn(ServeIcons, icon)
                         THEN SplitFirst(icon, ServeIconsSep)
                         ELSE <<>>
         IN  IF base_url # <<>>
             THEN generate_screenshot_urls(app["name"], base_url)
             ELSE <<>>

\* lines 445-458: the screenshots the output record gets; <<>> when the
\* record gets no 'screenshots' field
resolve_screenshots(app) ==
    IF TruthySeq(app, "screenshotURLs") THEN app["screenshotURLs"]
    ELSE IF TruthySeq(app, "screenshots") THEN app["screenshots"]
    ELSE LET icon == Get(app, "iconURL", <<>>)
             base_url == IF StrIn(ServeIcons, icon)
                         THEN SplitFirst(icon, ServeIconsSep)
                         ELSE <<>>
         IN  IF base_url # <<>>
             THEN generate_screenshot_urls(app["name"], base_url)
             ELSE <<>>

\* the inference with the ios16 test ahead of the ios15/w15 test
infer_min_os_16_first(app) ==
    LET app_name_lower == Lower(Get(app, "name", <<>>))
    IN  IF StrIn(TokIos16, app_name_lower) THEN "16.0"
        ELSE IF StrIn(TokIos15, app_name_lower) \/ StrIn(TokW15, app_name_lower)
        THEN "15.0"
        ELSE IF StrIn(TokIos14, app_name_lower) THEN "14.0"
        ELSE IF "minOSVersion" \in DOMAIN app THEN app["minOSVersion"]
        ELSE "13.0"

\* lines 471-482: the minimum OS version of a synthesized version entry
infer_min_os(app) ==
    LET app_name_lower == Lower(Get(app, "name", <<>>))
    IN  IF StrIn(TokIos15, app_name_lower) \/ StrIn(TokW15, app_name_lower)
        THEN "15.0"
        ELSE IF StrIn(TokIos16, app_name_lower) THEN "16.0"
        ELSE IF StrIn(TokIos14, app_name_lower) THEN "14.0"
        ELSE IF "minOSVersion" \in DOMAIN app THEN app["minOSVersion"]
        ELSE "13.0"

\* lines 463-484: the version entry built from the legacy flat fields
version_data(app, now) ==
    [ version              |-> Get(app, "version", "1.0"),
      date                 |-> format_date(Get(app, "versionDate", <<>>), now),
      size                 |-> Get(app, "size", 0),
      downloadURL          |-> Get(app, "downloadURL", ""),
      localizedDescription |-> Get(app, "localizedDescription", ""),
      minOSVersion         |-> infer_min_os(app) ]

\* a versions array whose explicit entries get their dates normalized too
build_versions_normalizing(app, now) ==
    IF "versions" \notin DOMAIN app
    THEN << version_data(app, now) >>
    ELSE [k \in 1..Len(app["versions"]) |->
            LET v == app["versions"][k]
            IN  IF "date" \in DOMAIN v
                THEN [v EXCEPT !["date"] = format_date(@, now)]
                ELSE v]

\* lines 460-486: the versions array of the output record
build_versions(app, now) ==
    IF "versions" \notin DOMAIN app
    THEN << version_data(app, now) >>
    ELSE app["versions"]

\* a completeness test that forgets the bundle identifier
is_incomplete_name_only(app) ==
    \/ DOMAIN app = {}
    \/ ~TruthySeq(app, "name")

\* lines 427-429: the record is skipped
is_incomplete(app) ==
    \/ DOMAIN app = {}
    \/ ~TruthySeq(app, "name")
    \/ ~TruthyStr(app, "bundleIdentifier")

\* lines 427-486: None for an incomplete record, else the record built
\* before any permission enrichment
convert_base(app, now) ==
    IF is_incomplete(app) THEN None
    ELSE LET shots == resolve_screenshots(app)
         IN  [ name                 |-> Get(app, "name", <<>>),
               bundleIdentifier     |-> Get(app, "bundleIdentifier", ""),
               developerName        |-> Get(app, "developerName", ""),
               localizedDescription |-> Get(app, "localizedDescription", ""),
               iconURL              |-> Get(app, "iconURL", <<>>),
               tintColor            |-> Get(app, "tintColor", "FFC300") ]
             @@ (IF TruthyStr(app, "subtitle")
                 THEN ("subtitle" :> app["subtitle"]) ELSE << >>)
             @@ (IF shots # <<>> THEN ("screenshots" :> shots) ELSE << >>)
             @@ ("versions" :> build_versions(app, now))

\* the empty PermissionResult {'entitlements': [], 'privacy': {}}
EmptyPermissions == [entitlements |-> << >>, privacy |-> << >>]

\* an enrichment that attaches whatever it was given
attach_permissions_always(altstore, perms) ==
    altstore @@ ("appPermissions" :> perms)

\* lines 493-502: the record with the non-empty parts of permissions attached
attach_permissions(altstore, perms) ==
    LET clean == (IF perms.entitlements # <<>>
                  THEN ("entitlements" :> perms.entitlements) ELSE << >>)
                 @@ (IF DOMAIN perms.privacy # {}
                     THEN ("privacy" :> perms.privacy) ELSE << >>)
    IN  IF DOMAIN clean # {}
        THEN altstore @@ ("appPermissions" :> clean)
        ELSE altstore

(***************************************************************************)
(* The static permission dictionaries (the entries the model's archives    *)
(* can mention).                                                           *)
(***************************************************************************)
\* self.permission_mappings: manifest key -> fallback label
permission_mappings ==
    [ NSCameraUsageDescription |->
        <<"C","a","m","e","r","a"," ","a","c","c","e","s","s">>,
      NSMicrophoneUsageDescription |->
        <<"M","i","c","r","o","p","h","o","n","e"," ","a","c","c","e","s","s">> ]

KeyAps ==
    <<"a","p","s","-","e","n","v","i","r","o","n","m","e","n","t">>
KeyAppId ==
    <<"a","p","p","l","i","c","a","t","i","o","n","-","i","d","e","n","t","i","f","i","e","r">>
KeyGetTask ==
    <<"g","e","t","-","t","a","s","k","-","a","l","l","o","w">>
\* an entitlement the dictionary does not list
KeyCustom ==
    <<"c","o","m",".","x",".","c","u","s","t","o","m">>

\* self.entitlement_mappings: the recognized entitlement identifiers
entitlement_mappings == {KeyAps, KeyAppId, KeyGetTask}

(***************************************************************************)
(* Python's ordering of str: by code point, then by length.                *)
(***************************************************************************)
\* the characters of the model's identifiers, in code-point order
CodePoints == <<" ", "-", ".">> \o <<"0","1","2","3","4","5","6","7","8","9">>
              \o UpperLetters \o <<"_">> \o LowerLetters
Ord(c) == CHOOSE k \in 1..Len(CodePoints) : CodePoints[k] = c

\* a < b for strings
StrLess(a, b) ==
    \E k \in 1..Len(b) :
        /\ k <= Len(a) + 1
        /\ SubSeq(a, 1, k - 1) = SubSeq(b, 1, k - 1)
        /\ (k = Len(a) + 1 \/ Ord(a[k]) < Ord(b[k]))

\* sorted(list(set(xs)))
RECURSIVE SortedOfSet(_)
SortedOfSet(S) ==
    IF S = {} THEN << >>
    ELSE LET least == CHOOSE x \in S : \A y \in S \ {x} : StrLess(x, y)
         IN  <<least>> \o SortedOfSet(S \ {least})
sorted_set(xs) == SortedOfSet(Range(xs))

(***************************************************************************)
(* analyze_ipa_file: the manifest stage.                                   *)
(***************************************************************************)
\* str.strip() leaves something
Whitespace == {" ", "\t", "\n"}
StripsToText(d) == \E k \in 1..Len(d) : d[k] \notin Whitespace

\* a mapping that takes every non-empty string as the app's description
privacy_of_unstripped(plist_data) ==
    [ key \in DOMAIN plist_data \cap DOMAIN permission_mappings |->
        LET description == plist_data[key]
        IN  IF "str" \in DOMAIN description /\ description["str"] # <<>>
            THEN description["str"]
            ELSE permission_mappings[key] ]

\* lines 257-267: the privacy mapping read off a parsed manifest, whose
\* values are [str |-> text] for a string and [other |-> truthiness] otherwise
privacy_of(plist_data) ==
    [ key \in DOMAIN plist_data \cap DOMAIN permission_mappings |->
        LET description == plist_data[key]
        IN  IF "str" \in DOMAIN description
               /\ description["str"] # <<>>
               /\ StripsToText(description["str"])
            THEN description["str"]
            ELSE permission_mappings[key] ]

(***************************************************************************)
(* The external tools.                                                     *)
(***************************************************************************)
\* what a tool run can come to
ToolOutcomes ==
    {"ok", "not_found", "nonzero_exit", "empty_output", "unparsable", "timeout"}

\* lines 336-340 and 376-380: the recognized keys of a parsed key list, in
\* the order the tool printed them
RECURSIVE recognized(_)
recognized(keys) ==
    IF keys = << >> THEN << >>
    ELSE (IF Head(keys) \in entitlement_mappings THEN <<Head(keys)>> ELSE << >>)
         \o recognized(Tail(keys))

\* extract_entitlements_with_codesign: every failure is caught and gives []
extract_entitlements_with_codesign(signed, outcome) ==
    IF outcome = "ok" THEN recognized(signed) ELSE << >>

\* extract_mobileprovision_with_security: every failure is caught and gives
\* []; profile is the decoded document, with or without 'Entitlements'
extract_mobileprovision_with_security(profile, outcome) ==
    IF outcome = "ok" /\ "Entitlements" \in DOMAIN profile
    THEN recognized(profile["Entitlements"])
    ELSE << >>

\* lines 307-309: append the entitlements not seen yet
RECURSIVE append_new(_, _)
append_new(ents, from_provision) ==
    IF from_provision = << >> THEN ents
    ELSE append_new(
            IF Head(from_provision) \in Range(ents) THEN ents
            ELSE Append(ents, Head(from_provision)),
            Tail(from_provision))

(***************************************************************************)
(* Inputs: app records.                                                    *)
(***************************************************************************)
\* the ways a field can be absent or hold one of vals
Opt(k, vals) == {<< >>} \cup {k :> v : v \in vals}

NameFoo      == <<"F","o","o">>
NameIos16    == <<"T","w","k"," ","i","O","S","1","6">>
NameIos15    == <<"a","p","p","-","i","o","s","1","5">>
NameW15      == <<"A","W","1","5">>
NameIos14    == <<"I","O","S","1","4",".","x">>
NameIos16W15 == <<"i","o","s","1","6","+","w","1","5">>
NameIos14And16 == <<"i","O","s","1","4","/","i","o","s","1","6">>
NameUnsafe   == <<"M","y","_","A","p","p","!"," ","2">>
Names == {NameFoo, NameIos16, NameIos15, NameW15, NameIos14, NameIos16W15,
          NameIos14And16, NameUnsafe}

IconBase     == <<"h",":","/","/","x",".","t">>
IconFile     == <<"A",".","p","n","g">>
\* <base>/serve/icons/<file>
IconServed   == IconBase \o ServeIconsSep \o IconFile
\* /serve/icons/<file>, relative to the site root
IconRooted   == ServeIconsSep \o IconFile
\* holds "serve/icons" but not between slashes
IconNoSlash  == IconBase \o <<"/">> \o ServeIcons
IconPlain    == IconBase \o <<"/">> \o IconFile
IconURLs == {<< >>, IconServed, IconRooted, IconNoSlash, IconPlain}

ShotA == <<"h",":","/","/","s","/","a">>
ShotB == <<"h",":","/","/","s","/","b">>

DateOnly == <<"2","0","2","4","-","0","1","-","0","2">>
DateTime == <<"2","0","2","4","-","0","1","-","0","2","T","0","3">>

UrlF == "https://h/f.ipa"
UrlG == "https://h/g.ipa"

\* entries of an explicit versions list
VersionF == [version |-> "2.0", date |-> DateOnly, downloadURL |-> UrlF]
VersionG == [version |-> "1.9", date |-> DateTime, downloadURL |-> UrlG,
             minOSVersion |-> "12.0"]
VersionNoUrl == [version |-> "1.0", date |-> << >>]
VersionLists == { << >>, <<VersionF>>, <<VersionG, VersionF>>,
                  <<VersionNoUrl, VersionF>>, <<NonObject>> }

\* records that differ in the fields the screenshot rules read
ShotApps ==
    { n @@ b @@ ic @@ su @@ sh @@ v :
        n  \in Opt("name", Names \cup {<< >>}),
        b  \in Opt("bundleIdentifier", {"", "com.x.foo"}),
        ic \in Opt("iconURL", IconURLs),
        su \in Opt("screenshotURLs", {<< >>, <<ShotA>>}),
        sh \in Opt("screenshots", {<< >>, <<ShotB>>}),
        v  \in Opt("versions", {<<VersionF>>}) }

\* records that differ in the fields the version rules read
VersionApps ==
    { n @@ b @@ v @@ d @@ m @@ u @@ x :
        n \in Opt("name", Names \cup {<< >>}),
        b \in Opt("bundleIdentifier", {"com.x.foo"}),
        v \in Opt("versions", VersionLists),
        d \in Opt("versionDate", {<< >>, DateOnly, DateTime}),
        m \in Opt("minOSVersion", {"12.0"}),
        u \in Opt("downloadURL", {"", UrlF}),
        x \in { << >>,
                [subtitle |-> "Sub", tintColor |-> "00FF00", version |-> "2.0",
                 size |-> 7, developerName |-> "Dev",
                 localizedDescription |-> "Text"],
                [subtitle |-> ""] } }

\* the records convert_app_to_altstore_format is called on directly
AppRecords == ShotApps \cup VersionApps

\* the entries of a catalog's apps list
CatalogEntries ==
    { NonObject,
      << >>,
      [name |-> << >>, bundleIdentifier |-> "com.x.foo", downloadURL |-> UrlF],
      [name |-> NameFoo, downloadURL |-> UrlF],
      [name |-> NameFoo, bundleIdentifier |-> "com.x.foo", downloadURL |-> UrlF],
      [name |-> NameIos16, bundleIdentifier |-> "com.x.g",
       versions |-> <<VersionG, VersionF>>],
      [name |-> NameFoo, bundleIdentifier |-> "com.x.e", versions |-> << >>],
      [name |-> NameFoo, bundleIdentifier |-> "com.x.n",
       versions |-> <<NonObject>>] }

RECURSIVE SeqsUpTo(_, _)
\* the sequences over S of length at most n
SeqsUpTo(S, n) ==
    IF n = 0 THEN {<< >>}
    ELSE LET shorter == SeqsUpTo(S, n - 1)
         IN  shorter \cup {Append(q, x) : q \in shorter, x \in S}

Catalogs == SeqsUpTo(CatalogEntries, MaxApps)

(***************************************************************************)
(* Inputs: archives.  An archive is described by what the inspector reads  *)
(* of it: whether it is a ZIP container, whether it holds Payload/X.app/,  *)
(* its manifest, whether every bundle entry can be read, the keys of its   *)
(* code signature as the signing inspector prints them, and its embedded   *)
(* provisioning profile as the decoder prints it.                          *)
(***************************************************************************)
EntKeys == {KeyAps, KeyAppId, KeyGetTask, KeyCustom}

\* the lists without repetition (the keys of a parsed dict, in its order)
KeyLists ==
    {q \in SeqsUpTo(EntKeys, MaxEnts) :
        \A j, k \in 1..Len(q) : j # k => q[j] # q[k]}

DescText  == [str |-> <<"S","c","a","n"," ","c","o","d","e","s">>]
DescEmpty == [str |-> << >>]
DescBlank == [str |-> <<" ", "\t">>]
DescOther == [other |-> TRUE]

\* parsed manifests; CFBundleName is a key the dictionary does not list
Plists ==
    { [CFBundleName |-> DescText],
      [NSCameraUsageDescription |-> DescText, CFBundleName |-> DescText],
      [NSCameraUsageDescription |-> DescBlank,
       NSMicrophoneUsageDescription |-> DescOther,
       CFBundleName |-> DescText],
      [NSCameraUsageDescription |-> DescEmpty,
       NSMicrophoneUsageDescription |-> DescText] }

\* manifest: "absent", "unopenable" (zip_file.open raises), "unparsable"
\* (plistlib.load raises) or "ok" with the parsed document in plist
Manifests ==
    { [manifest |-> m, plist |-> << >>] :
        m \in {"absent", "unopenable", "unparsable"} }
    \cup { [manifest |-> "ok", plist |-> p] : p \in Plists }

\* provision: "absent", "outside" (the first embedded.mobileprovision entry
\* is not a file of the bundle) or "inside"; profile is the decoded document
Provisions ==
    { [provision |-> "absent", profile |-> << >>],
      [provision |-> "outside", profile |-> << >>],
      [provision |-> "inside", profile |-> [Name |-> "dev"]] }
    \cup { [provision |-> "inside", profile |-> [Entitlements |-> q]] :
             q \in KeyLists }

NotZip   == [zip |-> FALSE]
NoBundle == [zip |-> TRUE, bundle |-> FALSE]

\* the files analyze_ipa_file is called on directly
Archives ==
    { NotZip, NoBundle }
    \cup { [zip |-> TRUE, bundle |-> TRUE, extractable |-> x, signed |-> sg]
           @@ m @@ pr :
             x \in BOOLEAN, sg \in KeyLists, m \in Manifests, pr \in Provisions }

\* an archive with privacy entries, signed keys and profile keys
ArchiveFull ==
    [ zip |-> TRUE, bundle |-> TRUE, extractable |-> TRUE,
      manifest |-> "ok",
      plist |-> [NSCameraUsageDescription |-> DescText,
                 CFBundleName |-> DescText],
      signed |-> <<KeyGetTask, KeyCustom>>,
      provision |-> "inside",
      profile |-> [Entitlements |-> <<KeyAps, KeyGetTask>>] ]

\* an archive that declares nothing
ArchiveBare ==
    [ zip |-> TRUE, bundle |-> TRUE, extractable |-> TRUE,
      manifest |-> "absent", plist |-> << >>, signed |-> << >>,
      provision |-> "absent", profile |-> << >> ]

\* what the endpoint at a download URL can serve
Web(url) ==
    IF url = UrlF THEN {ArchiveFull, NotZip}
    ELSE {ArchiveBare, NoBundle}

(***************************************************************************)
(* Command lines, the file system and the documents main can meet.         *)
(***************************************************************************)
Prog     == <<"a","l","t","s","t","o","r","e","_","c","o","n","v","e","r","t","e","r",".","p","y">>
PathIn   == <<"i","n",".","j","s","o","n">>
PathOut  == <<"o","/","o","u","t",".","j","s","o","n">>
DirIn    == <<"c","a","t","s">>
DirOut   == <<"a","l","t","/">>
Flag     == <<"-","-","a","n","a","l","y","z","e","-","i","p","a","s">>
FileA    == <<"a",".","j","s","o","n">>
FileB    == <<"b",".","j","s","o","n">>
ConvertedPrefix == <<"c","o","n","v","e","r","t","e","d","_">>
FileTxt  == <<"n","o","t","e","s",".","t","x","t">>

\* sys.argv: nothing, one or two paths, with the flag in every position
Argvs ==
    { <<Prog>>, <<Prog, PathIn>>, <<Prog, Flag>>,
      <<Prog, PathIn, Flag>>, <<Prog, Flag, PathIn>>,
      <<Prog, PathIn, PathOut>>, <<Prog, PathIn, PathOut, Flag>>,
      <<Prog, Flag, PathIn, PathOut>>,
      <<Prog, DirIn, DirOut>>, <<Prog, DirIn, DirOut, Flag>> }

\* os.path.join for a file name under a directory
join(d, f) ==
    IF d # << >> /\ d[Len(d)] # "/" THEN d \o <<"/">> \o f ELSE d \o f

\* os.path.basename: what follows the last "/"
basename(path) ==
    LET cut == {k \in 0..Len(path) : k = 0 \/ path[k] = "/"}
        last == CHOOSE k \in cut : \A m \in cut : m <= k
    IN  SubSeq(path, last + 1, Len(path))

\* str.endswith('.json')
DotJson == <<".","j","s","o","n">>
endswith_json(f) ==
    Len(f) >= Len(DotJson)
    /\ SubSeq(f, Len(f) - Len(DotJson) + 1, Len(f)) = DotJson

\* os.path.isdir, and the files open(..., 'r') can read
Directories == {DirIn}
ReadableFiles == {PathIn, join(DirIn, FileA)}
\* os.listdir of an input directory
Listings == { << >>, <<FileB, FileTxt, FileA>> }

\* the source's identifier and sourceURL of a document that has them
SourceId  == "com.cypwn.repo"
SourceUrl == <<"h","t","t","p","s",":","/","/","c",".","y","/","r",".","j","s","o","n">>

\* json.load: documents with and without apps, identifier and sourceURL,
\* and a document that is no object
Documents ==
    {NonObject} \cup
    { a @@ id @@ su :
        a  \in Opt("apps", SeqsUpTo(CatalogEntries, 1)),
        id \in Opt("identifier", {SourceId, ""}),
        su \in Opt("sourceURL", {SourceUrl, << >>}) }

(***************************************************************************)
(* The state.                                                              *)
(***************************************************************************)
VARIABLES
    entry,           \* the operation that was called
    pc,              \* where the program is
    analyze_ipa,     \* the analyze_ipa / analyze_ipas argument
    apps,            \* data.get('apps', [])
    i,               \* the entries of apps the loop has taken
    app,             \* the record convert_app_to_altstore_format works on
    converted_apps,  \* convert_repository's list
    skipped_apps,    \* convert_repository's counter
    output,          \* the apps of the output file, once written
    altstore_app,    \* the record under construction
    ret,             \* what convert_app_to_altstore_format returned
    temp_path,       \* the downloaded temporary file exists
    temp_dir,        \* the temporary extraction directory exists
    leaked,          \* the temporary files whose deletion failed
    archive,         \* the file analyze_ipa_file reads
    permissions,     \* analyze_ipa_file's local permissions
    result,          \* what the fetcher or the inspector returned
    failure,         \* which failure the fetcher reported, "none" if none
    stages,          \* how each stage of the inspector ended
    argv,            \* sys.argv
    batch_dirs,      \* batch_convert's two directories, << >> outside it
    json_files,      \* the files batch_convert has still to convert
    input_file,      \* convert_repository's input_file
    output_file,     \* convert_repository's output_file
    data,            \* the fields of the loaded document other than apps
    calls,           \* the URLs download_and_analyze_ipa was called with
    gets,            \* the HTTP GETs made for the current record
    tool_runs        \* the runs of each external tool for the current record

vars == << entry, pc, analyze_ipa, apps, i, app, converted_apps,
           skipped_apps, output, altstore_app, ret, temp_path, temp_dir,
           leaked, archive, permissions, result, failure, stages,
           argv, batch_dirs, json_files, input_file, output_file, data,
           calls, gets, tool_runs >>

\* what main, batch_convert and convert_repository were given
cli == << argv, batch_dirs, json_files, input_file, output_file, data >>
\* what was done for the current record
counts == << calls, gets, tool_runs >>

\* no value yet
Unset == ("$unset" :> TRUE)
IsUnset(v) == "$unset" \in DOMAIN v
\* an exception left convert_app_to_altstore_format
Raised == ("$raised" :> TRUE)
IsRaised(v) == "$raised" \in DOMAIN v
IsRecord(v) == ~IsNone(v) /\ ~IsRaised(v) /\ ~IsUnset(v)

NotRun == [manifest |-> "notrun", codesign |-> "notrun", security |-> "notrun"]

NoRuns == [codesign |-> 0, security |-> 0]

\* the state before any record is worked on
Idle ==
    /\ altstore_app = Unset
    /\ ret = Unset
    /\ temp_path = FALSE
    /\ temp_dir = FALSE
    /\ permissions = EmptyPermissions
    /\ result = Unset
    /\ failure = "none"
    /\ stages = NotRun
    /\ calls = << >>
    /\ gets = 0
    /\ tool_runs = NoRuns

(***************************************************************************)
(* convert_repository: the loop over data['apps'] (lines 516-552).         *)
(***************************************************************************)
\* where an exception that leaves convert_repository goes: batch_convert
\* catches it (lines 577-580), a direct call and main do not
raised_out == IF batch_dirs # << >> THEN "batch" ELSE "aborted"

\* lines 521-525: take the next entry.  app.get('name', 'Unknown') is
\* outside the try block: on an entry that is no object the AttributeError
\* leaves convert_repository and nothing is written.
LoopNext ==
    /\ pc = "loop"
    /\ i < Len(apps)
    /\ IF IsObject(apps[i + 1])
       THEN /\ app' = apps[i + 1]
            /\ pc' = "convert"
       ELSE /\ app' = app
            /\ pc' = raised_out
    /\ altstore_app' = Unset
    /\ ret' = Unset
    /\ permissions' = EmptyPermissions
    /\ result' = Unset
    /\ failure' = "none"
    /\ stages' = NotRun
    /\ calls' = << >>
    /\ gets' = 0
    /\ tool_runs' = NoRuns
    /\ UNCHANGED << cli, leaked, entry, analyze_ipa, apps, i, converted_apps, skipped_apps,
                    output, temp_path, temp_dir, archive >>

\* a loop that puts each converted record in front of the earlier ones
CollectInFront ==
    /\ pc = "returned"
    /\ entry \in {"convert_repository", "main"}
    /\ IF IsRecord(ret)
       THEN /\ converted_apps' = <<ret>> \o converted_apps
            /\ skipped_apps' = skipped_apps
       ELSE /\ converted_apps' = converted_apps
            /\ skipped_apps' = skipped_apps + 1
    /\ i' = i + 1
    /\ pc' = "loop"
    /\ UNCHANGED << cli, counts, leaked, entry, analyze_ipa, apps, app, output,
                    altstore_app, ret, temp_path, temp_dir, archive,
                    permissions, result, failure, stages >>

\* lines 529-538: keep the converted record, or count the entry as skipped
\* (None returned, or an exception caught)
Collect ==
    /\ pc = "returned"
    /\ entry \in {"convert_repository", "main"}
    /\ IF IsRecord(ret)
       THEN /\ converted_apps' = Append(converted_apps, ret)
            /\ skipped_apps' = skipped_apps
       ELSE /\ converted_apps' = converted_apps
            /\ skipped_apps' = skipped_apps + 1
    /\ i' = i + 1
    /\ pc' = "loop"
    /\ UNCHANGED << cli, counts, leaked, entry, analyze_ipa, apps, app, output, altstore_app, ret,
                    temp_path, temp_dir, archive, permissions, result,
                    failure, stages >>

ExampleBase == <<"h","t","t","p","s",":","/","/","e","x","a","m","p","l","e",".","c","o","m","/">>

\* a document whose identifier is always the default one
output_document_fixed_identifier(doc, converted, out_file) ==
    ("apps" :> converted)
    @@ ("identifier" :> "com.converted.source")
    @@ doc
    @@ ("sourceURL" :> ExampleBase \o basename(out_file))

\* lines 540-548: the document that is written: the converted apps, the
\* other fields of the input, and the two fields added when they are absent
output_document(doc, converted, out_file) ==
    ("apps" :> converted)
    @@ doc
    @@ ("identifier" :> "com.converted.source")
    @@ ("sourceURL" :> ExampleBase \o basename(out_file))

\* lines 540-552: write the output file and return
WriteOutput ==
    /\ pc = "loop"
    /\ i = Len(apps)
    /\ output' = output_document(data, converted_apps, output_file)
    /\ pc' = IF batch_dirs # << >> THEN "batch" ELSE "done"
    /\ UNCHANGED << cli, counts, leaked, entry, analyze_ipa, apps, i, app, converted_apps,
                    skipped_apps, altstore_app, ret, temp_path, temp_dir,
                    archive, permissions, result, failure, stages >>

(***************************************************************************)
(* convert_app_to_altstore_format (lines 424-504).                         *)
(***************************************************************************)
\* the download URL of the newest entry that has one
url_to_analyze_any_version(versions) ==
    LET with_url == {k \in 1..Len(versions) :
                        /\ IsObject(versions[k])
                        /\ TruthyStr(versions[k], "downloadURL")}
    IN  IF with_url = {} THEN ""
        ELSE versions[CHOOSE k \in with_url :
                          \A m \in with_url : k <= m]["downloadURL"]

\* lines 489-490: first_version.get('downloadURL'), "" for a falsy value
url_to_analyze(versions) == Get(versions[1], "downloadURL", "")

\* lines 427-492: build the record; return it, or None, or go on to the
\* fetcher when analysis is requested and the first version has a download
\* URL.  versions[0].get raises on a version entry that is no object.
ConvertApp ==
    /\ pc = "convert"
    /\ \E now \in NowStamps :
         LET built == convert_base(app, now)
         IN  IF IsNone(built)
             THEN /\ ret' = None
                  /\ altstore_app' = altstore_app
                  /\ calls' = calls
                  /\ pc' = "returned"
             ELSE IF analyze_ipa /\ built["versions"] # << >>
             THEN IF ~IsObject(built["versions"][1])
                  THEN /\ ret' = Raised
                       /\ altstore_app' = built
                       /\ calls' = calls
                       /\ pc' = "returned"
                  ELSE IF url_to_analyze(built["versions"]) # ""
                  THEN /\ ret' = ret
                       /\ altstore_app' = built
                       /\ calls' = Append(calls,
                                          url_to_analyze(built["versions"]))
                       /\ pc' = "get"
                  ELSE /\ ret' = built
                       /\ altstore_app' = built
                       /\ calls' = calls
                       /\ pc' = "returned"
             ELSE /\ ret' = built
                  /\ altstore_app' = built
                  /\ calls' = calls
                  /\ pc' = "returned"
    /\ UNCHANGED << cli, gets, tool_runs, leaked, entry, analyze_ipa, apps, i, app, converted_apps,
                    skipped_apps, output, temp_path, temp_dir, archive,
                    permissions, result, failure, stages >>

\* lines 493-504: attach the non-empty permissions and return
Attach ==
    /\ pc = "attach"
    /\ ret' = attach_permissions(altstore_app, result)
    /\ altstore_app' = ret'
    /\ pc' = "returned"
    /\ UNCHANGED << cli, counts, leaked, entry, analyze_ipa, apps, i, app, converted_apps,
                    skipped_apps, output, temp_path, temp_dir, archive,
                    permissions, result, failure, stages >>

(***************************************************************************)
(* download_and_analyze_ipa (lines 166-228).                               *)
(***************************************************************************)
\* the url argument of the call in progress
download_url == calls[Len(calls)]

\* a fetcher that issues the GET a second time after a timeout
HttpGetRetrying ==
    /\ pc = "get"
    /\ \/ /\ gets = 0
          /\ UNCHANGED << result, failure, temp_path >>
          /\ pc' = "get"
       \/ /\ \E f \in {"timeout", "connection", "http_status", "other"} :
               failure' = f
          /\ result' = EmptyPermissions
          /\ temp_path' = temp_path
          /\ pc' = "finally"
       \/ /\ temp_path' = TRUE
          /\ UNCHANGED << result, failure >>
          /\ pc' = "stream"
    /\ gets' = gets + 1
    /\ UNCHANGED << cli, calls, tool_runs, leaked, entry, analyze_ipa, apps, i,
                    app, converted_apps, skipped_apps, output, altstore_app,
                    ret, temp_dir, archive, permissions, stages >>

\* lines 171-187 and 209-220: the GET and its status check; a failure is
\* caught and gives the empty result, a success creates the temporary file
HttpGet ==
    /\ pc = "get"
    /\ \/ /\ \E f \in {"timeout", "connection", "http_status", "other"} :
               failure' = f
          /\ result' = EmptyPermissions
          /\ temp_path' = temp_path
          /\ pc' = "finally"
       \/ /\ temp_path' = TRUE
          /\ UNCHANGED << result, failure >>
          /\ pc' = "stream"
    /\ gets' = gets + 1
    /\ UNCHANGED << cli, calls, tool_runs, leaked, entry, analyze_ipa, apps, i, app, converted_apps,
                    skipped_apps, output, altstore_app, ret, temp_dir,
                    archive, permissions, stages >>

\* lines 189-198 and 209-220: stream the body into the temporary file and
\* test it with is_zipfile; an exception while streaming, or content that
\* is no archive, gives the empty result
Stream ==
    /\ pc = "stream"
    /\ \/ /\ failure' = "midstream"
          /\ result' = EmptyPermissions
          /\ archive' = archive
          /\ pc' = "finally"
       \/ \E a \in Web(download_url) :
            /\ archive' = a
            /\ IF a["zip"]
               THEN /\ UNCHANGED << result, failure >>
                    /\ pc' = "open"
               ELSE /\ failure' = "not_zip"
                    /\ result' = EmptyPermissions
                    /\ pc' = "finally"
    /\ UNCHANGED << cli, counts, leaked, entry, analyze_ipa, apps, i, app, converted_apps,
                    skipped_apps, output, altstore_app, ret, temp_path,
                    temp_dir, permissions, stages >>

\* a cleanup that runs only when the download reported no failure
FinallyOnSuccessOnly ==
    /\ pc = "finally"
    /\ temp_path' = (temp_path /\ failure # "none")
    /\ pc' = "attach"
    /\ UNCHANGED << cli, counts, leaked, entry, analyze_ipa, apps, i, app, converted_apps,
                    skipped_apps, output, altstore_app, ret, temp_dir,
                    archive, permissions, result, failure, stages >>

\* lines 221-228: the finally block removes the temporary file if there is
\* one; an os.unlink that raises is caught and reported, and the file stays
Finally ==
    /\ pc = "finally"
    /\ \/ /\ temp_path' = FALSE
          /\ leaked' = leaked
       \/ /\ temp_path
          /\ temp_path' = FALSE
          /\ leaked' = leaked + 1
    /\ pc' = "attach"
    /\ UNCHANGED << cli, counts, entry, analyze_ipa, apps, i, app,
                    converted_apps, skipped_apps, output, altstore_app, ret,
                    temp_dir, archive, permissions, result, failure, stages >>

(***************************************************************************)
(* analyze_ipa_file (lines 230-317).                                       *)
(***************************************************************************)
\* line 317, and lines 202-207 of the caller: the inspector returns perms
Return(perms) ==
    /\ permissions' = perms
    /\ result' = perms
    /\ pc' = IF entry = "analyze_ipa_file" THEN "done" ELSE "finally"

\* lines 232-274: open the archive, find the bundle, read the manifest.
\* A file that is no archive, or a manifest entry that cannot be opened,
\* raises into the outer handler, which returns what was gathered; no
\* bundle returns the empty result; a manifest that does not parse is
\* caught where it is read.
OpenArchive ==
    /\ pc = "open"
    /\ IF ~archive["zip"] \/ ~archive["bundle"]
       THEN /\ Return(EmptyPermissions)
            /\ stages' = stages
       ELSE IF archive["manifest"] = "unopenable"
       THEN /\ Return(EmptyPermissions)
            /\ stages' = [stages EXCEPT !.manifest = "failed"]
       ELSE /\ permissions' =
                 [EmptyPermissions EXCEPT !.privacy =
                     IF archive["manifest"] = "ok"
                     THEN privacy_of(archive["plist"]) ELSE << >>]
            /\ stages' = [stages EXCEPT !.manifest =
                 CASE archive["manifest"] = "ok" -> "ok"
                   [] archive["manifest"] = "absent" -> "absent"
                   [] OTHER -> "failed"]
            /\ result' = result
            /\ pc' = "extract"
    /\ UNCHANGED << cli, counts, leaked, entry, analyze_ipa, apps, i, app, converted_apps,
                    skipped_apps, output, altstore_app, ret, temp_path,
                    temp_dir, archive, failure >>

\* lines 276-290: create the temporary directory and extract the bundle
\* into it; an entry that cannot be read raises, the directory is removed
\* on the way out and the outer handler returns what was gathered
Extract ==
    /\ pc = "extract"
    /\ IF archive["extractable"]
       THEN /\ temp_dir' = TRUE
            /\ pc' = "codesign"
            /\ UNCHANGED << permissions, result >>
       ELSE /\ temp_dir' = FALSE
            /\ Return(permissions)
    /\ UNCHANGED << cli, counts, leaked, entry, analyze_ipa, apps, i, app, converted_apps,
                    skipped_apps, output, altstore_app, ret, temp_path,
                    archive, failure, stages >>

\* a signing-inspector call whose failure is not caught where it happens:
\* it reaches the outer handler and ends the analysis
CodesignUncaught ==
    /\ pc = "codesign"
    /\ \E outcome \in ToolOutcomes :
         /\ stages' = [stages EXCEPT !.codesign = outcome]
         /\ IF outcome = "ok"
            THEN /\ permissions' = [permissions EXCEPT !.entitlements =
                        @ \o recognized(archive["signed"])]
                 /\ pc' = "security"
                 /\ UNCHANGED << result, temp_dir >>
            ELSE /\ Return(permissions)
                 /\ temp_dir' = FALSE
    /\ tool_runs' = [tool_runs EXCEPT !.codesign = @ + 1]
    /\ UNCHANGED << cli, calls, gets, leaked, entry, analyze_ipa, apps, i, app, converted_apps,
                    skipped_apps, output, altstore_app, ret, temp_path,
                    archive, failure >>

\* lines 292-296: run the signing inspector on the extracted bundle
Codesign ==
    /\ pc = "codesign"
    /\ \E outcome \in ToolOutcomes :
         /\ permissions' = [permissions EXCEPT !.entitlements =
                @ \o extract_entitlements_with_codesign(archive["signed"],
                                                        outcome)]
         /\ stages' = [stages EXCEPT !.codesign = outcome]
    /\ tool_runs' = [tool_runs EXCEPT !.codesign = @ + 1]
    /\ pc' = "security"
    /\ UNCHANGED << cli, calls, gets, leaked, entry, analyze_ipa, apps, i, app, converted_apps,
                    skipped_apps, output, altstore_app, ret, temp_path,
                    temp_dir, archive, result, failure >>

\* a merge that returns the list as gathered
finish_entitlements_unsorted(ents) == ents

\* lines 311-312: remove duplicates and sort
finish_entitlements(ents) == sorted_set(ents)

\* lines 298-317: run the profile decoder when the profile was extracted,
\* merge its keys, leave the temporary directory, sort and return
Security ==
    /\ pc = "security"
    /\ \E outcome \in ToolOutcomes :
         LET ran == archive["provision"] = "inside"
             merged ==
                 IF ran
                 THEN append_new(permissions.entitlements,
                        extract_mobileprovision_with_security(
                            archive["profile"], outcome))
                 ELSE permissions.entitlements
         IN  /\ stages' = [stages EXCEPT !.security =
                              IF ran THEN outcome ELSE "notrun"]
             /\ Return([permissions EXCEPT !.entitlements =
                           finish_entitlements(merged)])
             /\ tool_runs' = [tool_runs EXCEPT !.security =
                                 IF ran THEN @ + 1 ELSE @]
    /\ temp_dir' = FALSE
    /\ UNCHANGED << cli, calls, gets, leaked, entry, analyze_ipa, apps, i, app, converted_apps,
                    skipped_apps, output, altstore_app, ret, temp_path,
                    archive, failure >>

(***************************************************************************)
(* main and batch_convert (lines 561-604).                                 *)
(***************************************************************************)
\* lines 585-604: the usage message when sys.argv has fewer than three
\* elements; otherwise the two paths and the flag are taken from sys.argv
\* and the input path decides between batch_convert (whose lines 564-568
\* make the output directory and list the .json files) and
\* convert_repository
Main ==
    /\ pc = "main"
    /\ IF Len(argv) < 3
       THEN /\ pc' = "usage"
            /\ UNCHANGED << analyze_ipa, batch_dirs, json_files, input_file,
                            output_file >>
       ELSE /\ analyze_ipa' = (\E k \in 1..Len(argv) : argv[k] = Flag)
            /\ IF argv[2] \in Directories
               THEN /\ batch_dirs' = << argv[2], argv[3] >>
                    /\ \E listing \in Listings :
                         json_files' = SelectSeq(listing, endswith_json)
                    /\ UNCHANGED << input_file, output_file >>
                    /\ pc' = "batch"
               ELSE /\ input_file' = argv[2]
                    /\ output_file' = argv[3]
                    /\ UNCHANGED << batch_dirs, json_files >>
                    /\ pc' = "read"
    /\ UNCHANGED << argv, data, counts, leaked, entry, apps, i, app,
                    converted_apps, skipped_apps, output, altstore_app, ret,
                    temp_path, temp_dir, archive, permissions, result,
                    failure, stages >>

\* lines 570-580: batch_convert takes the next file, or returns to main,
\* which returns
BatchNext ==
    /\ pc = "batch"
    /\ IF json_files = << >>
       THEN /\ pc' = "done"
            /\ UNCHANGED << json_files, input_file, output_file >>
       ELSE /\ input_file' = join(batch_dirs[1], Head(json_files))
            /\ output_file' =
                 join(batch_dirs[2], ConvertedPrefix \o Head(json_files))
            /\ json_files' = Tail(json_files)
            /\ pc' = "read"
    /\ UNCHANGED << argv, batch_dirs, data, counts, leaked, entry,
                    analyze_ipa, apps, i, app, converted_apps, skipped_apps,
                    output, altstore_app, ret, temp_path, temp_dir, archive,
                    permissions, result, failure, stages >>

\* lines 513-519: convert_repository loads the document and sets up its
\* loop; a file that cannot be read, or a document that is no object,
\* raises
ReadInput ==
    /\ pc = "read"
    /\ IF input_file \notin ReadableFiles
       THEN /\ pc' = raised_out
            /\ UNCHANGED << data, apps, i, converted_apps, skipped_apps >>
       ELSE \E doc \in Documents :
              IF ~IsObject(doc)
              THEN /\ pc' = raised_out
                   /\ UNCHANGED << data, apps, i, converted_apps,
                                   skipped_apps >>
              ELSE /\ data' = [k \in DOMAIN doc \ {"apps"} |-> doc[k]]
                   /\ apps' = Get(doc, "apps", << >>)
                   /\ i' = 0
                   /\ converted_apps' = << >>
                   /\ skipped_apps' = 0
                   /\ pc' = "loop"
    /\ UNCHANGED << argv, batch_dirs, json_files, input_file, output_file,
                    counts, leaked, entry, analyze_ipa, app, output,
                    altstore_app, ret, temp_path, temp_dir, archive,
                    permissions, result, failure, stages >>

(***************************************************************************)
(* Specifications.                                                         *)
(***************************************************************************)
\* a call that did not come through main: no command line, no batch
Direct ==
    /\ argv = << >>
    /\ batch_dirs = << >>
    /\ json_files = << >>
    /\ input_file = PathIn
    /\ output_file = PathOut
    /\ data = << >>

\* convert_repository on a catalog
Init ==
    /\ entry = "convert_repository"
    /\ pc = "loop"
    /\ analyze_ipa \in BOOLEAN
    /\ apps \in Catalogs
    /\ i = 0
    /\ app = Unset
    /\ converted_apps = << >>
    /\ skipped_apps = 0
    /\ output = Unset
    /\ leaked = 0
    /\ archive = Unset
    /\ Direct
    /\ Idle

Next ==
    \/ LoopNext
    \/ ConvertApp
    \/ HttpGet
    \/ Stream
    \/ OpenArchive
    \/ Extract
    \/ Codesign
    \/ Security
    \/ Finally
    \/ Attach
    \/ Collect
    \/ WriteOutput

Spec == Init /\ [][Next]_vars

\* convert_app_to_altstore_format on one record
InitConvert ==
    /\ entry = "convert_app_to_altstore_format"
    /\ pc = "convert"
    /\ analyze_ipa \in BOOLEAN
    /\ apps = << >>
    /\ i = 0
    /\ app \in AppRecords
    /\ converted_apps = << >>
    /\ skipped_apps = 0
    /\ output = Unset
    /\ leaked = 0
    /\ archive = Unset
    /\ Direct
    /\ Idle

NextConvert ==
    \/ ConvertApp
    \/ HttpGet
    \/ Stream
    \/ OpenArchive
    \/ Extract
    \/ Codesign
    \/ Security
    \/ Finally
    \/ Attach

SpecConvert == InitConvert /\ [][NextConvert]_vars

\* analyze_ipa_file on one local file
InitAnalyze ==
    /\ entry = "analyze_ipa_file"
    /\ pc = "open"
    /\ analyze_ipa = TRUE
    /\ apps = << >>
    /\ i = 0
    /\ app = Unset
    /\ converted_apps = << >>
    /\ skipped_apps = 0
    /\ output = Unset
    /\ leaked = 0
    /\ archive \in Archives
    /\ Direct
    /\ Idle

NextAnalyze ==
    \/ OpenArchive
    \/ Extract
    \/ Codesign
    \/ Security

SpecAnalyze == InitAnalyze /\ [][NextAnalyze]_vars

\* main on a command line
InitMain ==
    /\ entry = "main"
    /\ pc = "main"
    /\ argv \in Argvs
    /\ analyze_ipa = FALSE
    /\ batch_dirs = << >>
    /\ json_files = << >>
    /\ input_file = << >>
    /\ output_file = << >>
    /\ data = << >>
    /\ apps = << >>
    /\ i = 0
    /\ app = Unset
    /\ converted_apps = << >>
    /\ skipped_apps = 0
    /\ output = Unset
    /\ leaked = 0
    /\ archive = Unset
    /\ Idle

NextMain ==
    \/ Main
    \/ BatchNext
    \/ ReadInput
    \/ LoopNext
    \/ ConvertApp
    \/ HttpGet
    \/ Stream
    \/ OpenArchive
    \/ Extract
    \/ Codesign
    \/ Security
    \/ Finally
    \/ Attach
    \/ Collect
    \/ WriteOutput

SpecMain == InitMain /\ [][NextMain]_vars

(***************************************************************************)
(* Properties.                                                             *)
(***************************************************************************)
\* name or bundleIdentifier is missing or empty
MissingNameOrBundle(a) ==
    \/ "name" \notin DOMAIN a
    \/ a["name"] = << >>
    \/ "bundleIdentifier" \notin DOMAIN a
    \/ a["bundleIdentifier"] = ""

HasNameAndBundle(a) == ~MissingNameOrBundle(a)

\* convert_app_to_altstore_format has returned a record for app
Converted == pc = "returned" /\ IsRecord(ret)

\* the record has no usable screenshot field of its own
NoOwnScreenshots(a) ==
    /\ ("screenshotURLs" \in DOMAIN a => a["screenshotURLs"] = << >>)
    /\ ("screenshots" \in DOMAIN a => a["screenshots"] = << >>)

IsPrefix(p, q) == Len(p) <= Len(q) /\ SubSeq(q, 1, Len(p)) = p

\* the text after the last "/"
LastSegment(q) ==
    LET slashes == {k \in 1..Len(q) : q[k] = "/"}
    IN  IF slashes = {} THEN q
        ELSE SubSeq(q, (CHOOSE k \in slashes : \A m \in slashes : m <= k) + 1,
                    Len(q))

SafeChars ==
    Range(UpperLetters) \cup Range(LowerLetters) \cup Digits \cup {"-", "_", "."}

\* the name with every character outside the safe set replaced by "_"
Sanitized(n) == [k \in 1..Len(n) |-> IF n[k] \in SafeChars THEN n[k] ELSE "_"]

\* each element precedes the next in the order of strings
Ascending(q) == \A k \in 1..(Len(q) - 1) : StrLess(q[k], q[k + 1])

\* the program is between the creation of the temporary file and the end
\* of the finally block of download_and_analyze_ipa
InDownload ==
    pc \in {"stream", "open", "extract", "codesign", "security", "finally"}

\* the program is inside the scope of the temporary directory
InExtraction == pc \in {"codesign", "security"}

-----------------------------------------------------------------------------
\* C1: every record with a non-empty name and bundleIdentifier is returned
\* as one record whose versions list has at least one entry, whatever else
\* the record holds.
C1_OneRecordWithAVersion ==
    (pc = "returned" /\ HasNameAndBundle(app))
        => (IsRecord(ret) /\ Len(ret["versions"]) >= 1)

-----------------------------------------------------------------------------
\* C2: a record whose name or bundleIdentifier is missing or empty makes
\* convert_app_to_altstore_format return None at once, with no download or
\* analysis step in between, and convert_repository then leaves its list
\* as it is and adds exactly one to the skipped counter.
C2_IncompleteIsSkipped ==
    [][ /\ (pc = "convert" /\ MissingNameOrBundle(app))
            => (pc' = "returned" /\ ret' = None /\ ~temp_path')
        /\ (pc = "returned" /\ entry = "convert_repository"
                /\ MissingNameOrBundle(app))
            => (/\ converted_apps' = converted_apps
                /\ skipped_apps' = skipped_apps + 1) ]_vars

\* an incomplete record that has a download URL was skipped while analysis
\* was requested
C2_Witness ==
    /\ pc = "loop"
    /\ analyze_ipa
    /\ i >= 1
    /\ IsObject(apps[i])
    /\ MissingNameOrBundle(apps[i])
    /\ "downloadURL" \in DOMAIN apps[i]
    /\ skipped_apps >= 1
    /\ result = Unset

-----------------------------------------------------------------------------
\* C3: once the fetcher has reported a failure (timeout, connection error,
\* HTTP status, another exception, an exception while streaming, content
\* that is no archive) it returns the empty PermissionResult, and the record
\* convert_app_to_altstore_format returns has no appPermissions field.
C3_FailedDownloadNoPermissions ==
    failure # "none"
        => /\ pc \in {"finally", "attach", "returned", "loop", "done"}
           /\ result = EmptyPermissions
           /\ pc \in {"returned", "loop", "done"}
                => (IsRecord(ret) /\ "appPermissions" \notin DOMAIN ret)

\* a record came back after the downloaded content proved to be no archive
C3_Witness ==
    /\ Converted
    /\ failure = "not_zip"
    /\ result = EmptyPermissions
    /\ "appPermissions" \notin DOMAIN ret

-----------------------------------------------------------------------------
\* C4: when the signing inspector reported the key list S and the profile
\* decoder the key list P, the entitlements returned are the recognized keys
\* of S and P, each once, in ascending order; taking the keys in the other
\* order (P first, then S) gives the same list.
C4_SortedUnion ==
    (pc = "done" /\ stages.codesign = "ok" /\ stages.security = "ok")
        => LET S == archive["signed"]
               P == IF "Entitlements" \in DOMAIN archive["profile"]
                    THEN archive["profile"]["Entitlements"] ELSE << >>
           IN  /\ Range(result.entitlements) =
                      (Range(S) \cup Range(P)) \cap entitlement_mappings
               /\ Ascending(result.entitlements)
               /\ result.entitlements =
                      finish_entitlements(
                          append_new(recognized(P), recognized(S)))

\* a key found by both tools, one by the inspector only and one by the
\* decoder only, returned in order
C4_Witness ==
    /\ pc = "done"
    /\ stages.codesign = "ok"
    /\ stages.security = "ok"
    /\ archive["signed"] = <<KeyGetTask, KeyAps>>
    /\ "Entitlements" \in DOMAIN archive["profile"]
    /\ archive["profile"]["Entitlements"] = <<KeyAps, KeyAppId>>
    /\ result.entitlements = <<KeyAppId, KeyAps, KeyGetTask>>

-----------------------------------------------------------------------------
-----------------------------------------------------------------------------
-----------------------------------------------------------------------------
\* C7: no entry of the apps list, whatever its shape, ends the run: the run
\* goes on to the end of the list and the output file is written.
C7_NoEntryEndsTheRun ==
    /\ pc # "aborted"
    /\ pc = "done" => (~IsUnset(output) /\ i = Len(apps))

-----------------------------------------------------------------------------
\* C8 as stated: in a record converted from the flat form, minOSVersion is
\* "16.0" whenever the lowercased name holds "ios16", "15.0" whenever it
\* holds "ios15" or "w15", "14.0" whenever it holds "ios14", and "13.0"
\* when it holds none of them and the record has no minOSVersion.
C8_MinOSByToken ==
    (Converted /\ "versions" \notin DOMAIN app)
        => LET n == Lower(app["name"])
               m == ret["versions"][1]["minOSVersion"]
               is15 == StrIn(TokIos15, n) \/ StrIn(TokW15, n)
               is16 == StrIn(TokIos16, n)
               is14 == StrIn(TokIos14, n)
           IN  /\ is16 => m = "16.0"
               /\ is15 => m = "15.0"
               /\ is14 => m = "14.0"
               /\ (~is15 /\ ~is16 /\ ~is14 /\ "minOSVersion" \notin DOMAIN app)
                    => m = "13.0"

\* C8: in a record converted from the flat form, minOSVersion is "15.0"
\* whenever the lowercased name holds "ios15" or "w15"; "16.0" when it holds
\* "ios16" and neither of those; "14.0" when it holds "ios14" and none of
\* "ios15", "w15", "ios16"; and "13.0" when it holds none of the tokens and
\* the record has no minOSVersion.
C8_MinOSByPriority ==
    (Converted /\ "versions" \notin DOMAIN app)
        => LET n == Lower(app["name"])
               m == ret["versions"][1]["minOSVersion"]
               is15 == StrIn(TokIos15, n) \/ StrIn(TokW15, n)
               is16 == StrIn(TokIos16, n)
               is14 == StrIn(TokIos14, n)
           IN  /\ is15 => m = "15.0"
               /\ (is16 /\ ~is15) => m = "16.0"
               /\ (is14 /\ ~is15 /\ ~is16) => m = "14.0"
               /\ (~is15 /\ ~is16 /\ ~is14 /\ "minOSVersion" \notin DOMAIN app)
                    => m = "13.0"

\* a flat record whose name holds both "ios16" and "w15" came out with "15.0"
C8_Witness ==
    /\ Converted
    /\ "versions" \notin DOMAIN app
    /\ app["name"] = NameIos16W15
    /\ ret["versions"][1]["minOSVersion"] = "15.0"

-----------------------------------------------------------------------------
\* C9: a record with an explicit versions field comes out with that very
\* list: same entries, same order, same contents, whatever its name and
\* flat fields, with or without analysis.
C9_ExplicitVersionsKept ==
    /\ (Converted /\ "versions" \in DOMAIN app)
            => ret["versions"] = app["versions"]
    /\ (IsRecord(altstore_app) /\ "versions" \in DOMAIN app)
            => altstore_app["versions"] = app["versions"]

\* a record with two explicit versions, a date-only entry among them, a
\* name that holds "ios16" and flat fields of its own came back after its
\* archive was analyzed
C9_Witness ==
    /\ Converted
    /\ analyze_ipa
    /\ stages.codesign = "ok"
    /\ "versions" \in DOMAIN app
    /\ app["versions"] = <<VersionG, VersionF>>
    /\ app["name"] = NameIos16
    /\ "versionDate" \in DOMAIN app
    /\ "minOSVersion" \in DOMAIN app
    /\ ret["versions"] = <<VersionG, VersionF>>

-----------------------------------------------------------------------------
\* C10 as stated: a valid record without screenshots of its own whose icon
\* URL is <base>/serve/icons/<file> comes out with exactly one screenshot
\* URL; it starts with <base>, and its file name starts with the sanitized
\* app name.
C10_FallbackScreenshot ==
    (Converted /\ NoOwnScreenshots(app) /\ "iconURL" \in DOMAIN app
        /\ StrIn(ServeIconsSep, app["iconURL"]))
        => LET base == SplitFirst(app["iconURL"], ServeIconsSep)
           IN  /\ "screenshots" \in DOMAIN ret
               /\ Len(ret["screenshots"]) = 1
               /\ IsPrefix(base, ret["screenshots"][1])
               /\ IsPrefix(Sanitized(app["name"]),
                           LastSegment(ret["screenshots"][1]))

\* C10: a valid record without screenshots of its own whose icon URL is
\* <base>/serve/icons/<file> with a non-empty <base> comes out with exactly
\* one screenshot URL; it starts with <base>, and its file name starts with
\* the sanitized app name.  With an empty <base> the record comes out with
\* no screenshots field.
C10_FallbackScreenshotWithBase ==
    (Converted /\ NoOwnScreenshots(app) /\ "iconURL" \in DOMAIN app
        /\ StrIn(ServeIconsSep, app["iconURL"]))
        => LET base == SplitFirst(app["iconURL"], ServeIconsSep)
           IN  IF base # << >>
               THEN /\ "screenshots" \in DOMAIN ret
                    /\ Len(ret["screenshots"]) = 1
                    /\ IsPrefix(base, ret["screenshots"][1])
                    /\ IsPrefix(Sanitized(app["name"]),
                                LastSegment(ret["screenshots"][1]))
               ELSE "screenshots" \notin DOMAIN ret

\* a record named "My_App! 2" with an icon under h://x.t/serve/icons/ came
\* out with one screenshot URL under h://x.t
C10_Witness ==
    /\ Converted
    /\ NoOwnScreenshots(app)
    /\ "iconURL" \in DOMAIN app
    /\ app["iconURL"] = IconServed
    /\ app["name"] = NameUnsafe
    /\ "screenshots" \in DOMAIN ret
    /\ Len(ret["screenshots"]) = 1
    /\ IsPrefix(IconBase, ret["screenshots"][1])

-----------------------------------------------------------------------------
\* a permissions object with at least one non-empty part
NonEmptyResult(r) ==
    ~IsUnset(r) /\ (r.entitlements # << >> \/ DOMAIN r.privacy # {})

\* C11: convert_app_to_altstore_format calls download_and_analyze_ipa only
\* when analysis was requested, at most once for a record, and only with
\* the downloadURL of the first entry of the record's versions; the record
\* has appPermissions only if the result of that call was non-empty, and
\* then the field holds only non-empty sub-objects.
C11_OneCallFirstVersion ==
    /\ Len(calls) <= 1
    /\ calls # << >> =>
         /\ analyze_ipa
         /\ altstore_app["versions"] # << >>
         /\ calls[1] = Get(altstore_app["versions"][1], "downloadURL", "")
    /\ (pc = "returned" /\ IsRecord(ret) /\ "appPermissions" \in DOMAIN ret) =>
         /\ calls # << >>
         /\ NonEmptyResult(result)
         /\ DOMAIN ret["appPermissions"] # {}
         /\ \A part \in DOMAIN ret["appPermissions"] :
              DOMAIN ret["appPermissions"][part] # {}

\* a record was analysed through its first version and came back with the
\* privacy part only
C11_Witness ==
    /\ pc = "returned"
    /\ IsRecord(ret)
    /\ Len(calls) = 1
    /\ "appPermissions" \in DOMAIN ret
    /\ DOMAIN ret["appPermissions"] = {"privacy"}

-----------------------------------------------------------------------------
\* the two defaults as the catalog reader sees them
DefaultIdentifier == "com.converted.source"
DefaultSourceURL(out_file) ==
    <<"h","t","t","p","s",":","/","/","e","x","a","m","p","l","e",".","c","o","m","/">>
    \o LastSegment(out_file)

\* C12: every catalog that is written has an identifier and a sourceURL: a
\* value the input document has is kept unchanged, a missing identifier
\* becomes 'com.converted.source' and a missing sourceURL becomes
\* 'https://example.com/' followed by the base name of the output file.
C12_IdentifierAndSourceURL ==
    [][output' # output =>
         /\ {"identifier", "sourceURL"} \subseteq DOMAIN output'
         /\ output'["identifier"] =
              (IF "identifier" \in DOMAIN data THEN data["identifier"]
               ELSE DefaultIdentifier)
         /\ output'["sourceURL"] =
              (IF "sourceURL" \in DOMAIN data THEN data["sourceURL"]
               ELSE DefaultSourceURL(output_file))]_vars

\* batch_convert wrote a catalog with a converted record from a document
\* that had neither field
C12_Witness ==
    /\ ~IsUnset(output)
    /\ output["apps"] # << >>
    /\ DOMAIN data = {}
    /\ output["identifier"] = "com.converted.source"
    /\ output["sourceURL"] =
         <<"h","t","t","p","s",":","/","/","e","x","a","m","p","l","e",".","c","o","m","/",
           "c","o","n","v","e","r","t","e","d","_","a",".","j","s","o","n">>

-----------------------------------------------------------------------------
\* the arguments after the program name that are not the flag
PositionalArguments ==
    {k \in 2..Len(argv) :
        argv[k] # <<"-","-","a","n","a","l","y","z","e","-","i","p","a","s">>}

\* C13: when the command line gives fewer than two positional arguments,
\* with or without the --analyze-ipas flag, main prints the usage message
\* and returns: no conversion is started, no input is read, no output is
\* written.
C13_UsageOnTooFewPositional ==
    (entry = "main" /\ Cardinality(PositionalArguments) < 2) =>
        /\ pc \in {"main", "usage"}
        /\ IsUnset(output)

-----------------------------------------------------------------------------
\* the outcomes of an external tool that are failures
ToolFailures == {"not_found", "nonzero_exit", "empty_output", "unparsable",
                 "timeout"}

\* C14: there is no retry.  For one record at most one HTTP GET is issued,
\* the signing inspector runs at most once and the profile decoder at most
\* once; a step is never taken again once it has been taken, failed or not,
\* and a record whose step failed is followed by the next entry of the
\* catalog.
C14_NoRetry ==
    [][/\ gets' <= 1
       /\ tool_runs'["codesign"] <= 1
       /\ tool_runs'["security"] <= 1
       /\ gets' > gets => (gets = 0 /\ failure = "none")
       /\ tool_runs'["codesign"] > tool_runs["codesign"] =>
            (tool_runs["codesign"] = 0 /\ stages["codesign"] = "notrun")
       /\ tool_runs'["security"] > tool_runs["security"] =>
            (tool_runs["security"] = 0 /\ stages["security"] = "notrun")
       /\ (/\ pc = "returned"
           /\ \/ failure # "none"
              \/ stages["codesign"] \in ToolFailures
              \/ stages["security"] \in ToolFailures) =>
            (pc' = "loop" /\ i' = i + 1)]_vars

\* a record was fetched with one GET, both tools were run once and timed
\* out, and the loop stands before the next entry
C14_Witness ==
    /\ pc = "loop"
    /\ 0 < i
    /\ i < Len(apps)
    /\ gets = 1
    /\ tool_runs = [codesign |-> 1, security |-> 1]
    /\ stages["codesign"] = "timeout"
    /\ stages["security"] = "timeout"

-----------------------------------------------------------------------------
\* a manifest value that is a string with something other than whitespace
IsDescription(d) ==
    /\ "str" \in DOMAIN d
    /\ \E k \in 1..Len(d["str"]) : d["str"][k] \notin {" ", "\t", "\n"}

\* analyze_ipa_file returned after reading a manifest that parsed
ManifestWasRead ==
    /\ pc = "done"
    /\ archive["zip"]
    /\ archive["bundle"]
    /\ archive["manifest"] = "ok"

\* C15: the privacy mapping analyze_ipa_file returns has exactly the keys of
\* the manifest that the static permission dictionary lists; the value of a
\* key is the manifest's description when that is a string with something
\* other than whitespace, and the dictionary's label otherwise.
C15_PrivacyMapping ==
    ManifestWasRead =>
        /\ DOMAIN result["privacy"] =
             DOMAIN archive["plist"] \cap DOMAIN permission_mappings
        /\ \A key \in DOMAIN result["privacy"] :
             result["privacy"][key] =
                 (IF IsDescription(archive["plist"][key])
                  THEN archive["plist"][key]["str"]
                  ELSE permission_mappings[key])

\* a manifest with a whitespace-only camera description, a microphone
\* description that is no string and a key the dictionary does not list
C15_Witness ==
    /\ ManifestWasRead
    /\ DOMAIN archive["plist"] =
         {"NSCameraUsageDescription", "NSMicrophoneUsageDescription",
          "CFBundleName"}
    /\ archive["plist"]["NSCameraUsageDescription"] = [str |-> <<" ", "\t">>]
    /\ "str" \notin DOMAIN archive["plist"]["NSMicrophoneUsageDescription"]
    /\ DOMAIN result["privacy"] =
         {"NSCameraUsageDescription", "NSMicrophoneUsageDescription"}

-----------------------------------------------------------------------------
\* the output record o carries the identity of the input record a
SameIdentity(o, a) ==
    /\ o["name"] = Get(a, "name", << >>)
    /\ o["bundleIdentifier"] = Get(a, "bundleIdentifier", "")

\* out can be matched, record by record and left to right, with records of
\* inp, no record of inp being used twice
RECURSIVE InInputOrder(_, _)
InInputOrder(out, inp) ==
    IF out = << >> THEN TRUE
    ELSE IF inp = << >> THEN FALSE
    ELSE IF SameIdentity(Head(out), Head(inp))
    THEN InInputOrder(Tail(out), Tail(inp))
    ELSE InInputOrder(out, Tail(inp))

AllObjects(q) == \A k \in 1..Len(q) : IsObject(q[k])

\* C16: on a catalog whose entries are all objects, the converted records
\* and the skipped counter add up to the entries taken so far, and to the
\* number of input records when the output is written; the output's apps are
\* the converted records in the order of their input records, each input
\* record giving at most one of them.
C16_CountAndOrder ==
    AllObjects(apps) =>
        /\ pc = "loop" => Len(converted_apps) + skipped_apps = i
        /\ InInputOrder(converted_apps, SubSeq(apps, 1, i))
        /\ pc = "done" =>
             /\ output["apps"] = converted_apps
             /\ Len(output["apps"]) + skipped_apps = Len(apps)
             /\ InInputOrder(output["apps"], apps)

\* a catalog that gave two different converted records has been written
C16_Witness ==
    /\ pc = "done"
    /\ AllObjects(apps)
    /\ Len(apps) >= 2
    /\ Len(output["apps"]) = 2
    /\ output["apps"][1]["bundleIdentifier"]
         # output["apps"][2]["bundleIdentifier"]

-----------------------------------------------------------------------------
\* C17: without IPA analysis, converting a converted record gives the same
\* record again, field for field, whatever the time of the second
\* conversion.
C17_Idempotent ==
    (Converted /\ ~analyze_ipa) =>
        \A now \in NowStamps : convert_base(ret, now) = ret

\* a flat record with its own screenshotURLs was converted without
\* analysis: its screenshots and its versions entry are fields the input
\* did not have
C17_Witness ==
    /\ Converted
    /\ ~analyze_ipa
    /\ "versions" \notin DOMAIN app
    /\ "screenshotURLs" \in DOMAIN app
    /\ "screenshots" \in DOMAIN ret
    /\ Len(ret["versions"]) = 1

==============================================================================
